---- MODULE Spec2Model ----
(***************************************************************************)
(* Model of the coupon bot of src/main.py: BotManager.run (the session     *)
(* loop and the cycle loop), BotManager.post_cupons (gather, filter,       *)
(* select, produce, publish), the signal handler handle_exit and the       *)
(* helpers shorten_url, download_image and create_image.                   *)
(*                                                                         *)
(* The external collaborators (search, channel, shortener, image download, *)
(* renderer, console) are inputs: each action draws their outcome with \E. *)
(* Time is counted in seconds; a sleeping coroutine advances by at most    *)
(* TickSeconds per Tick step.                                              *)
(***************************************************************************)
EXTENDS Integers, Sequences, FiniteSets, TLC

\* ---------------------------------------------------------------- bounds
NumTitles == 2          \* distinct coupon titles the search can return
MaxBatch == 3           \* longest batch get_cupons returns in the model
TickSeconds == 10800    \* granularity of the clock while a sleep is pending

\* ------------------------------------------------------ program constants
RECONNECT_DELAY == 60
POST_INTERVAL == 6 * 60 * 60
MAX_RETRIES == 5
NumSites == 3            \* sites = [cuponomia, meliuz, pelando]
NotExited == -1

Titles == 1..NumTitles
NoFile == 0             \* cupom.png does not exist

\* every batch the three searches can add up to, after the shuffle
Batches == UNION {[1..n -> Titles] : n \in 0..MaxBatch}

Min(a, b) == IF a < b THEN a ELSE b
Range(s) == {s[i] : i \in 1..Len(s)}
Count(s, t) == Cardinality({i \in 1..Len(s) : s[i] = t})

\* line 96: random.shuffle(all_coupons): every order of the same candidates
Shuffles(s) ==
    {b \in [1..Len(s) -> Titles] : \A t \in Titles : Count(b, t) = Count(s, t)}

VARIABLES
    pc,              \* position of run(): see PcValues
    should_restart,  \* self.should_restart
    posted_coupons,  \* self.posted_coupons (set of titles)
    retry_count,     \* local retry_count of run()
    cupons,          \* local cupons of post_cupons, kept until time passes after it
    new_coupons,     \* local new_coupons of post_cupons
    slot,            \* cupom.png: NoFile, or the title it was written for
    sleep_left,      \* seconds left of the pending asyncio.sleep
    \* observation of the run (written, never read by the program)
    start_posted,    \* posted_coupons when the current cycle started (as now, outside one)
    did_reset,       \* the current cycle cleared posted_coupons
    sends,           \* sends to the channel made by the current cycle
    consec_fails,    \* initialize_bot failures since its last success
    cycle_failed,    \* post_cupons raised and no cycle has started since
    reinit,          \* initialize_bot was called since that failure
    slept,           \* seconds the pending sleep has lasted so far
    signalled,       \* handle_exit has run
    sig_in_wait,     \* handle_exit ran while a sleep had time left
    overslept,       \* seconds slept after handle_exit ran
    recovered,       \* retry_count that initialize_bot has just reset (0 once a cycle starts)
    all_coupons,     \* local all_coupons of get_cupons
    site,            \* index of the next site get_cupons queries
    failed,          \* sites whose search failed in the current get_cupons
    ok_items,        \* items delivered by the searches that succeeded, in site order
    exit_code        \* exit status of the process, NotExited while it runs

vars == <<pc, should_restart, posted_coupons, retry_count, cupons,
          new_coupons, slot, sleep_left, start_posted, did_reset, sends,
          consec_fails, cycle_failed, reinit, slept, signalled,
          sig_in_wait, overslept, recovered, all_coupons, site, failed,
          ok_items, exit_code>>

prog == <<pc, should_restart, posted_coupons, retry_count, cupons,
          new_coupons, slot, sleep_left>>

PcValues == {"outer", "init", "inner", "cycle", "publish",
             "post_wait", "cycle_wait", "retry_wait", "done"}
Waits == {"post_wait", "cycle_wait", "retry_wait"}

\* ------------------------------------------------------------- helpers

\* line 113: new_coupons = [c for c in cupons if c["titulo"] not in posted]
FilterNewKeepAll(batch, hist) == batch
FilterNew(batch, hist) == SelectSeq(batch, LAMBDA c : c \notin hist)

\* lines 114-116: the history after the filter step
HistoryAfterFilterEager(batch, hist) ==
    IF \E i \in 1..Len(batch) : batch[i] \in hist THEN {} ELSE hist
HistoryAfterFilter(batch, hist) ==
    IF FilterNew(batch, hist) = <<>> THEN {} ELSE hist

\* lines 114-117: the candidates to choose from after the filter step
SelectableNoReset(batch, hist) == FilterNew(batch, hist)
SelectableFirstOnly(batch, hist) ==
    IF FilterNew(batch, hist) = <<>> THEN <<batch[1]>>
    ELSE FilterNew(batch, hist)
Selectable(batch, hist) ==
    IF FilterNew(batch, hist) = <<>> THEN batch ELSE FilterNew(batch, hist)

\* line 120: cupom = new_coupons[0]
Selected(new) == new[1]

\* line 151 (reached only when the send returned): posted_coupons.add(titulo)
HistoryAfterSendAlways(hist, new, ok) == hist \cup {Selected(new)}
HistoryAfterSendReplace(hist, new, ok) ==
    IF ok THEN {Selected(new)} ELSE hist
HistoryAfterSendAll(hist, new, ok) ==
    IF ok THEN hist \cup Range(new) ELSE hist
HistoryAfterSend(hist, new, ok) ==
    IF ok THEN hist \cup {Selected(new)} ELSE hist

\* lines 121-155: the inner handler absorbs every exception of the item,
\* so post_cupons returns normally whether or not the send raised
PublishOutcomeRaises(ok) == IF ok THEN "returned" ELSE "raised"
PublishOutcome(ok) == "returned"

\* lines 226-244: shorten_url; key = SHRINKME_API is set, outcome of the call
ShortenOutcomes == {"success", "success_no_field", "bad_status", "exception"}
shorten_urlErrorText(url, key, outcome) ==
    IF ~key THEN url
    ELSE IF outcome = "success" THEN <<"short", url[2]>>
    ELSE IF outcome = "bad_status" THEN <<"error", url[2]>>
    ELSE url
shorten_url(url, key, outcome) ==
    IF ~key THEN url
    ELSE IF outcome = "success" THEN <<"short", url[2]>>
    ELSE url

\* the outcomes of shorten_url that are failures of the shortener
ShortenFailed(key, outcome) == ~key \/ outcome \in {"bad_status", "exception"}

\* lines 171 and 186: retry_count after an initialize_bot attempt
RetryAfterInitNoReset(rc, ok) == IF ok THEN rc ELSE rc + 1
RetryAfterInit(rc, ok) == IF ok THEN 0 ELSE rc + 1

\* line 189: if retry_count >= MAX_RETRIES
ExhaustedStrict(rc) == rc > MAX_RETRIES
ExhaustedEarly(rc) == rc >= MAX_RETRIES - 1
Exhausted(rc) == rc >= MAX_RETRIES

\* lines 59-81: buscar_cupons_google; ok = the search and the mapping of its
\* items went through, items = what the search holds for the site
buscar_cupons_googlePartial(ok, items) == items
buscar_cupons_google(ok, items) == IF ok THEN items ELSE <<>>

\* lines 166 and 174: while self.should_restart
LoopContinuesAlways(flag) == TRUE
LoopContinues(flag) == flag

\* lines 177-178 and 179-182: the sleep that follows a cycle
WaitAfterCycleShort(raised) == RECONNECT_DELAY
WaitAfterCycle(raised) == IF raised THEN RECONNECT_DELAY ELSE POST_INTERVAL

\* lines 246-255: run() returned and nothing sets an exit status
ExitCode(exhausted) == 0

\* line 183: break leaves the cycle loop, back to the while of line 166
CycleFailureTargetContinue == "inner"
CycleFailureTarget == "outer"

\* asyncio.sleep never looks at should_restart: a pending sleep goes on
SleepStep(left) == Min(TickSeconds, left)

\* ----------------------------------------------------------------- Init
Init ==
    /\ pc = "outer"
    /\ should_restart = TRUE
    /\ posted_coupons = {}
    /\ retry_count = 0
    /\ cupons = <<>>
    /\ new_coupons = <<>>
    /\ slot \in {NoFile} \cup Titles   \* a cupom.png may be left by an earlier process
    /\ sleep_left = 0
    /\ start_posted = {}
    /\ did_reset = FALSE
    /\ sends = <<>>
    /\ consec_fails = 0
    /\ cycle_failed = FALSE
    /\ reinit = FALSE
    /\ slept = 0
    /\ signalled = FALSE
    /\ sig_in_wait = FALSE
    /\ overslept = 0
    /\ recovered = 0
    /\ all_coupons = <<>>
    /\ site = 1
    /\ failed = {}
    /\ ok_items = <<>>
    /\ exit_code = NotExited

StartSleep(where, secs) ==
    /\ pc' = where
    /\ sleep_left' = secs
    /\ slept' = 0

\* -------------------------------------------------------------- actions

\* lines 36-38: handle_exit, run by the interpreter between two steps
HandleExit ==
    /\ pc # "done"
    /\ should_restart
    /\ should_restart' = FALSE
    /\ signalled' = TRUE
    /\ sig_in_wait' = (pc \in Waits /\ sleep_left > 0)
    /\ UNCHANGED <<pc, posted_coupons, retry_count, cupons, new_coupons,
                   slot, sleep_left, start_posted, did_reset, sends,
                   consec_fails, cycle_failed, reinit, slept, overslept, recovered>>
    /\ UNCHANGED <<all_coupons, site, failed, ok_items, exit_code>>

\* line 166: while self.should_restart, true: initialize_bot is called
OuterEnter ==
    /\ pc = "outer"
    /\ LoopContinues(should_restart)
    /\ pc' = "init"
    /\ reinit' = cycle_failed
    /\ UNCHANGED <<should_restart, posted_coupons, retry_count, cupons,
                   new_coupons, slot, sleep_left, start_posted, did_reset,
                   sends, consec_fails, cycle_failed, slept, signalled,
                   sig_in_wait, overslept, recovered>>
    /\ UNCHANGED <<all_coupons, site, failed, ok_items, exit_code>>

\* line 166: while self.should_restart, false: run() returns
OuterExit ==
    /\ pc = "outer"
    /\ ~LoopContinues(should_restart)
    /\ pc' = "done"
    /\ UNCHANGED <<should_restart, posted_coupons, retry_count, cupons,
                   new_coupons, slot, sleep_left, start_posted, did_reset,
                   sends, consec_fails, cycle_failed, reinit, slept,
                   signalled, sig_in_wait, overslept, recovered>>
    /\ UNCHANGED <<all_coupons, site, failed, ok_items, exit_code>>

\* lines 168-172: initialize_bot returned True
InitOk ==
    /\ pc = "init"
    /\ retry_count' = RetryAfterInit(retry_count, TRUE)
    /\ consec_fails' = 0
    /\ recovered' = retry_count
    /\ pc' = "inner"
    /\ UNCHANGED <<should_restart, posted_coupons, cupons, new_coupons, slot,
                   sleep_left, start_posted, did_reset, sends, cycle_failed,
                   reinit, slept, signalled, sig_in_wait, overslept>>
    /\ UNCHANGED <<all_coupons, site, failed, ok_items, exit_code>>

\* lines 168-169 and 185-195: initialize_bot returned False (or Bot() raised)
InitFail ==
    /\ pc = "init"
    /\ retry_count' = RetryAfterInit(retry_count, FALSE)
    /\ consec_fails' = consec_fails + 1
    /\ IF Exhausted(retry_count')
       THEN /\ should_restart' = FALSE
            /\ pc' = "done"
            /\ UNCHANGED <<sleep_left, slept>>
       ELSE /\ StartSleep("retry_wait", RECONNECT_DELAY)
            /\ UNCHANGED should_restart
    /\ UNCHANGED <<posted_coupons, cupons, new_coupons, slot, start_posted,
                   did_reset, sends, cycle_failed, reinit, signalled,
                   sig_in_wait, overslept, recovered>>
    /\ UNCHANGED <<all_coupons, site, failed, ok_items, exit_code>>

\* line 174: while self.should_restart, true: post_cupons is called
InnerEnter ==
    /\ pc = "inner"
    /\ LoopContinues(should_restart)
    /\ pc' = "cycle"
    /\ start_posted' = posted_coupons
    /\ did_reset' = FALSE
    /\ sends' = <<>>
    /\ cycle_failed' = FALSE
    /\ reinit' = FALSE
    /\ cupons' = <<>>
    /\ new_coupons' = <<>>
    /\ recovered' = 0
    /\ all_coupons' = <<>>
    /\ site' = 1
    /\ failed' = {}
    /\ ok_items' = <<>>
    /\ UNCHANGED <<should_restart, posted_coupons, retry_count,
                   slot, sleep_left, consec_fails, slept,
                   signalled, sig_in_wait, overslept>>
    /\ UNCHANGED exit_code

\* line 174: while self.should_restart, false: back to the while of line 166
InnerExit ==
    /\ pc = "inner"
    /\ ~LoopContinues(should_restart)
    /\ pc' = "outer"
    /\ UNCHANGED <<should_restart, posted_coupons, retry_count, cupons,
                   new_coupons, slot, sleep_left, start_posted, did_reset,
                   sends, consec_fails, cycle_failed, reinit, slept,
                   signalled, sig_in_wait, overslept, recovered>>
    /\ UNCHANGED <<all_coupons, site, failed, ok_items, exit_code>>

\* lines 92-95: one site is queried and its coupons are appended
Query ==
    /\ pc = "cycle"
    /\ site <= NumSites
    /\ \E ok \in BOOLEAN, items \in Batches :
          /\ Len(all_coupons) + Len(items) <= MaxBatch
          /\ all_coupons' = all_coupons \o buscar_cupons_google(ok, items)
          /\ failed' = IF ok THEN failed ELSE failed \cup {site}
          /\ ok_items' = IF ok THEN ok_items \o items ELSE ok_items
    /\ site' = site + 1
    /\ UNCHANGED <<pc, should_restart, posted_coupons, retry_count, cupons,
                   new_coupons, slot, sleep_left, start_posted, did_reset,
                   sends, consec_fails, cycle_failed, reinit, slept,
                   signalled, sig_in_wait, overslept, recovered, exit_code>>

\* the locals of get_cupons are gone once it has returned
GatherDone ==
    /\ all_coupons' = <<>>
    /\ site' = 1
    /\ failed' = {}
    /\ ok_items' = <<>>

\* lines 105-110 and 177-178: get_cupons returned nothing, post_cupons returns
CycleEmpty ==
    /\ pc = "cycle"
    /\ site > NumSites
    /\ all_coupons = <<>>
    /\ GatherDone
    /\ StartSleep("post_wait", WaitAfterCycle(FALSE))
    /\ UNCHANGED <<should_restart, posted_coupons, retry_count, cupons,
                   new_coupons, slot, start_posted, did_reset, sends,
                   consec_fails, cycle_failed, reinit, signalled,
                   sig_in_wait, overslept, recovered>>
    /\ UNCHANGED exit_code

\* lines 105-120: get_cupons returned a batch; filter, reset when exhausted
CycleFilter ==
    /\ pc = "cycle"
    /\ site > NumSites
    /\ all_coupons # <<>>
    /\ GatherDone
    /\ \E batch \in Shuffles(all_coupons) :
          /\ cupons' = batch
          /\ new_coupons' = Selectable(batch, posted_coupons)
          /\ posted_coupons' = HistoryAfterFilter(batch, posted_coupons)
          /\ did_reset' = (FilterNew(batch, posted_coupons) = <<>>)
    /\ pc' = "publish"
    /\ UNCHANGED <<should_restart, retry_count, slot, sleep_left,
                   start_posted, sends, consec_fails, cycle_failed, reinit,
                   slept, signalled, sig_in_wait, overslept, recovered>>
    /\ UNCHANGED exit_code

\* lines 159-161 and 179-182: the first statement of post_cupons, outside
\* the item handler, raised (the console write of line 106); run() catches it
\* and sleeps RECONNECT_DELAY
CycleFault ==
    /\ pc = "cycle"
    /\ site = 1
    /\ cycle_failed' = TRUE
    /\ StartSleep("cycle_wait", WaitAfterCycle(TRUE))
    /\ UNCHANGED <<should_restart, posted_coupons, retry_count, cupons,
                   new_coupons, slot, start_posted, did_reset, sends,
                   consec_fails, reinit, signalled, sig_in_wait, overslept, recovered>>
    /\ UNCHANGED <<all_coupons, site, failed, ok_items, exit_code>>

\* lines 119-155 and 177-178: produce the artifact, send, record the title.
\* The caption is kept as the link it embeds; the f-string of line 125 ends
\* in a stray closing brace, which the interpreter rejects as written.
Publish ==
    /\ pc = "publish"
    /\ \E key \in BOOLEAN, short \in ShortenOutcomes, has_img \in BOOLEAN,
          dl_ok \in BOOLEAN, render_ok \in BOOLEAN, send_ok \in BOOLEAN :
          \* a call that is not made has no outcome to draw
          /\ (~key => short = "exception")
          /\ (~has_img => ~dl_ok)
          /\ ((has_img /\ dl_ok) => ~render_ok)
          /\ LET titulo == Selected(new_coupons)
                 link == shorten_url(<<"orig", titulo>>, key, short)
                 imagem_gerada == has_img /\ dl_ok
                 written == imagem_gerada \/ render_ok
                 slot1 == IF written THEN titulo ELSE slot
                 photo == slot1 # NoFile
             IN  /\ slot' = slot1
                 /\ sends' = Append(sends,
                       [titulo |-> titulo, photo |-> photo, ok |-> send_ok,
                        link |-> link, img |-> slot1, fresh |-> written,
                        shortfail |-> ShortenFailed(key, short)])
                 /\ posted_coupons' =
                       HistoryAfterSend(posted_coupons, new_coupons, send_ok)
                 /\ IF PublishOutcome(send_ok) = "raised"
                    THEN /\ cycle_failed' = TRUE
                         /\ StartSleep("cycle_wait", WaitAfterCycle(TRUE))
                    ELSE /\ StartSleep("post_wait", WaitAfterCycle(FALSE))
                         /\ UNCHANGED cycle_failed
    /\ UNCHANGED <<should_restart, retry_count, cupons, new_coupons,
                   start_posted, did_reset,
                   consec_fails, reinit, signalled, sig_in_wait, overslept, recovered>>
    /\ UNCHANGED <<all_coupons, site, failed, ok_items, exit_code>>

\* lines 178, 182, 195: time passes while asyncio.sleep is pending; the
\* locals of the post_cupons call that returned, and what was observed of it,
\* are dropped
Tick ==
    /\ pc \in Waits
    /\ sleep_left > 0
    /\ LET d == SleepStep(sleep_left)
       IN  /\ d > 0
           /\ sleep_left' = sleep_left - d
           /\ slept' = slept + d
           /\ overslept' = IF signalled THEN overslept + d ELSE overslept
    /\ cupons' = <<>>
    /\ new_coupons' = <<>>
    /\ start_posted' = posted_coupons
    /\ did_reset' = FALSE
    /\ sends' = <<>>
    /\ UNCHANGED <<pc, should_restart, posted_coupons, retry_count, slot,
                   consec_fails, cycle_failed, reinit, signalled,
                   sig_in_wait, recovered>>
    /\ UNCHANGED <<all_coupons, site, failed, ok_items, exit_code>>

\* line 178 returned: next iteration of the cycle loop (line 174)
WakePost ==
    /\ pc = "post_wait"
    /\ sleep_left = 0
    /\ pc' = "inner"
    /\ slept' = 0
    /\ UNCHANGED <<should_restart, posted_coupons, retry_count, cupons,
                   new_coupons, slot, sleep_left, start_posted, did_reset,
                   sends, consec_fails, cycle_failed, reinit,
                   signalled, sig_in_wait, overslept, recovered>>
    /\ UNCHANGED <<all_coupons, site, failed, ok_items, exit_code>>

\* lines 182-183 returned: break
WakeCycle ==
    /\ pc = "cycle_wait"
    /\ sleep_left = 0
    /\ pc' = CycleFailureTarget
    /\ slept' = 0
    /\ UNCHANGED <<should_restart, posted_coupons, retry_count, cupons,
                   new_coupons, slot, sleep_left, start_posted, did_reset,
                   sends, consec_fails, cycle_failed, reinit,
                   signalled, sig_in_wait, overslept, recovered>>
    /\ UNCHANGED <<all_coupons, site, failed, ok_items, exit_code>>

\* line 195 returned: next iteration of the session loop (line 166)
WakeRetry ==
    /\ pc = "retry_wait"
    /\ sleep_left = 0
    /\ pc' = "outer"
    /\ slept' = 0
    /\ UNCHANGED <<should_restart, posted_coupons, retry_count, cupons,
                   new_coupons, slot, sleep_left, start_posted, did_reset,
                   sends, consec_fails, cycle_failed, reinit,
                   signalled, sig_in_wait, overslept, recovered>>
    /\ UNCHANGED <<all_coupons, site, failed, ok_items, exit_code>>

\* lines 246-255: asyncio.run returned, the interpreter exits
MainExit ==
    /\ pc = "done"
    /\ exit_code = NotExited
    /\ exit_code' = ExitCode(consec_fails >= MAX_RETRIES)
    /\ UNCHANGED <<pc, should_restart, posted_coupons, retry_count, cupons,
                   new_coupons, slot, sleep_left, start_posted, did_reset,
                   sends, consec_fails, cycle_failed, reinit, slept,
                   signalled, sig_in_wait, overslept, recovered, all_coupons,
                   site, failed, ok_items>>

Next ==
    \/ HandleExit
    \/ OuterEnter
    \/ OuterExit
    \/ InitOk
    \/ InitFail
    \/ InnerEnter
    \/ InnerExit
    \/ Query
    \/ CycleEmpty
    \/ CycleFilter
    \/ CycleFault
    \/ Publish
    \/ Tick
    \/ WakePost
    \/ WakeCycle
    \/ WakeRetry
    \/ MainExit

Spec == Init /\ [][Next]_vars

TypeOK ==
    /\ pc \in PcValues
    /\ should_restart \in BOOLEAN
    /\ posted_coupons \subseteq Titles
    /\ retry_count \in 0..MAX_RETRIES
    /\ cupons \in Batches
    /\ new_coupons \in Batches
    /\ slot \in {NoFile} \cup Titles
    /\ sleep_left \in 0..POST_INTERVAL
    /\ Len(sends) <= 1
    /\ all_coupons \in Batches
    /\ site \in 1..(NumSites + 1)
    /\ failed \subseteq 1..NumSites
    /\ exit_code \in {NotExited, 0}

\* ------------------------------------------------------------ properties

\* the history the send of the current cycle started from
Prior == IF did_reset THEN {} ELSE start_posted
\* the pending sleep, from start to end
SleepTotal == slept + sleep_left
\* the current cycle has sent (or tried to send) a candidate
HasSent == sends # <<>>

\* C1: no double-posting within a reset epoch: a candidate sent by a cycle
\* that did not reset the history has a title that was not in posted_coupons
\* when the cycle started.
C1_NoDoublePost ==
    \A i \in 1..Len(sends) :
        ~did_reset => sends[i].titulo \notin start_posted

\* C1 witness: the head of the batch was already posted, no reset happened,
\* and another, unposted title was sent with success.
C1_Witness ==
    /\ HasSent
    /\ ~did_reset
    /\ cupons[1] \in start_posted
    /\ sends[1].ok
    /\ sends[1].titulo \notin start_posted

\* C2: dedup monotonicity: every step leaves posted_coupons as it is, adds
\* exactly the title just published (Publish), or clears it (the reset of
\* the filter step); nothing else removes a title.
C2_DedupMonotonic ==
    [][ \/ posted_coupons' = posted_coupons
        \/ /\ pc = "publish"
           /\ sends'[Len(sends')].ok
           /\ posted_coupons' = posted_coupons \cup {sends'[Len(sends')].titulo}
        \/ /\ pc = "cycle"
           /\ pc' = "publish"
           /\ did_reset'
           /\ posted_coupons' = {} ]_vars

\* C2 witness: a history of two or more titles was cleared by a reset and
\* the cycle then added the one title it published.
C2_Witness ==
    /\ did_reset
    /\ Cardinality(start_posted) >= 2
    /\ HasSent
    /\ sends[1].ok
    /\ posted_coupons = {sends[1].titulo}

\* C3: reset trigger: after the filter step on a non-empty batch whose titles
\* were all in posted_coupons, posted_coupons is empty and the candidates to
\* choose from are the original batch, same elements in the same order.
C3_ResetTrigger ==
    /\ (pc = "publish" /\ cupons # <<>> /\ Range(cupons) \subseteq start_posted)
          => /\ posted_coupons = {}
             /\ new_coupons = cupons
             /\ did_reset
    \* the example: batch [A,B,C] with history {A,B,C}
    /\ Selectable(<<1, 2, 3>>, {1, 2, 3}) = <<1, 2, 3>>
    /\ HistoryAfterFilter(<<1, 2, 3>>, {1, 2, 3}) = {}

\* C3 witness: a batch of three candidates that carries every title met a
\* history that holds them all.
C3_Witness ==
    /\ pc = "publish"
    /\ Len(cupons) = 3
    /\ Range(cupons) = Titles
    /\ Range(cupons) = start_posted
    /\ new_coupons = cupons
    /\ posted_coupons = {}

\* C4: at most one publish per cycle: a cycle whose batch has new candidates
\* makes exactly one send, for the first new candidate; posted_coupons gains
\* that title when the send returned and nothing otherwise; every other new
\* title of the batch stays out of posted_coupons.
C4_OnePublishPerCycle ==
    /\ Len(sends) <= 1
    /\ (pc = "publish" => sends = <<>>)
    /\ (cupons # <<>> /\ pc \notin {"cycle", "publish"} /\ ~did_reset) =>
          /\ Len(sends) = 1
          /\ sends[1].titulo = new_coupons[1]
          /\ posted_coupons =
                IF sends[1].ok THEN start_posted \cup {sends[1].titulo}
                ELSE start_posted
          /\ \A i \in 1..Len(new_coupons) :
                new_coupons[i] # sends[1].titulo
                    => new_coupons[i] \notin posted_coupons

\* C4 witness: two different new candidates, the first published with
\* success, the second still out of the history.
C4_Witness ==
    /\ pc = "post_wait"
    /\ ~did_reset
    /\ Len(new_coupons) >= 2
    /\ new_coupons[2] # new_coupons[1]
    /\ HasSent
    /\ sends[1].ok
    /\ new_coupons[1] \in posted_coupons
    /\ new_coupons[2] \notin posted_coupons

\* C5 as stated: after a cycle failure initialize_bot is not called again
\* before the next cycle.
C5_NoReconnectOnCycleFailure == cycle_failed => ~reinit

\* C5 amended: a cycle failure waits RECONNECT_DELAY with retry_count left at
\* 0, and no cycle starts after it until initialize_bot has been called again.
C5_ReconnectAfterCycleFailure ==
    /\ pc = "cycle_wait" =>
          cycle_failed /\ retry_count = 0 /\ SleepTotal = RECONNECT_DELAY
    /\ (cycle_failed /\ pc = "inner") => reinit

\* C5 witness: the session was rebuilt after a cycle failure and the cycle
\* loop is about to run again.
C5_Witness ==
    /\ pc = "inner"
    /\ cycle_failed
    /\ reinit
    /\ should_restart
    /\ retry_count = 0

\* C6: termination bound: MAX_RETRIES consecutive initialize_bot failures put
\* run() in its terminal state with should_restart false; without a signal
\* run() ends only that way; and nothing happens after the terminal state.
C6_TerminationBound ==
    /\ [](consec_fails >= MAX_RETRIES => pc = "done" /\ ~should_restart)
    /\ []((pc = "done" /\ ~signalled) => consec_fails = MAX_RETRIES)
    /\ [][pc = "done" => UNCHANGED prog]_vars

\* C6 witness: run() ended on the fifth consecutive failure, no signal.
C6_Witness ==
    /\ pc = "done"
    /\ ~signalled
    /\ consec_fails = MAX_RETRIES
    /\ ~should_restart

\* C7 as stated: run() ends on retries only when the incremented count is
\* strictly greater than MAX_RETRIES.
C7_TerminatesOnlyAboveMax ==
    (pc = "done" /\ ~signalled) => retry_count > MAX_RETRIES

\* C7 amended: a session failure adds one to retry_count; run() terminates
\* when the incremented count has reached MAX_RETRIES and otherwise sleeps
\* RECONNECT_DELAY before the next attempt.
C7_TerminatesAtMax ==
    [][ (pc = "init" /\ pc' # "inner" /\ pc' # "init") =>
           /\ retry_count' = retry_count + 1
           /\ IF retry_count' >= MAX_RETRIES
              THEN pc' = "done" /\ ~should_restart'
              ELSE /\ pc' = "retry_wait"
                   /\ sleep_left' = RECONNECT_DELAY
                   /\ should_restart' = should_restart ]_vars

\* C7 witness: the fourth consecutive failure is being waited out.
C7_Witness ==
    /\ pc = "retry_wait"
    /\ retry_count = MAX_RETRIES - 1
    /\ SleepTotal = RECONNECT_DELAY

\* C8: retry counter discipline: retry_count stays within 0..MAX_RETRIES, is
\* 0 wherever cycles are run, is set to 0 by a successful initialize_bot,
\* grows by exactly 1 on a failed one, and no other step changes it.
C8_RetryCounterDiscipline ==
    /\ [](retry_count \in 0..MAX_RETRIES)
    /\ [](pc \in {"inner", "cycle", "publish", "post_wait", "cycle_wait"}
             => retry_count = 0)
    /\ [][ IF pc = "init" /\ pc' # "init"
           THEN IF pc' = "inner" THEN retry_count' = 0
                ELSE retry_count' = retry_count + 1
           ELSE retry_count' = retry_count ]_vars

\* C8 witness: a session was established after two or more failures and the
\* cycle loop is entered with retry_count 0.
C8_Witness ==
    /\ pc = "inner"
    /\ recovered >= 2
    /\ retry_count = 0

\* C9: interruptible waits: when handle_exit runs while a sleep has time
\* left, no more of that time is slept.
C9_InterruptibleWaits == sig_in_wait => overslept = 0

\* C10 as stated: after a failed send the scheduler waits RECONNECT_DELAY.
C10_PublishFailureShortWait ==
    (HasSent /\ ~sends[1].ok /\ pc \in Waits) => SleepTotal = RECONNECT_DELAY

\* C10 amended: a failed send is absorbed inside post_cupons: the title is
\* not recorded, the cycle does not count as failed and the scheduler waits
\* the full POST_INTERVAL.
C10_PublishFailureAbsorbed ==
    (HasSent /\ ~sends[1].ok /\ pc \in Waits) =>
        /\ pc = "post_wait"
        /\ SleepTotal = POST_INTERVAL
        /\ ~cycle_failed
        /\ posted_coupons = Prior

\* C10 witness: the full interval is being waited after a failed send.
C10_Witness ==
    /\ pc = "post_wait"
    /\ HasSent
    /\ ~sends[1].ok
    /\ ~cycle_failed
    /\ sleep_left = POST_INTERVAL
    /\ slept = 0

\* the program steps: every action but the signal handler
Run ==
    \/ OuterEnter \/ OuterExit \/ InitOk \/ InitFail \/ InnerEnter
    \/ InnerExit \/ Query \/ CycleEmpty \/ CycleFilter \/ CycleFault
    \/ Publish \/ Tick \/ WakePost \/ WakeCycle \/ WakeRetry \/ MainExit

\* every call and every sleep of run() returns in the end
FairSpec == Spec /\ WF_vars(Run)

\* C11: fallback chain for the artifact: when neither the download nor the
\* rendering wrote cupom.png in this cycle, the candidate is sent as text,
\* not as a photo.
C11_TextFallback == (HasSent /\ ~sends[1].fresh) => ~sends[1].photo

\* C12: fallback chain for the caption: whenever the shortener failed (no
\* credential, bad status, exception) the caption sent carries the original
\* link of the candidate, and the cycle is not aborted.
C12_CaptionFallback ==
    (HasSent /\ sends[1].shortfail) =>
        /\ sends[1].link = <<"orig", sends[1].titulo>>
        /\ ~cycle_failed
        /\ pc # "cycle_wait"

\* C12 witness: a candidate was sent with its original link after the
\* shortener failed.
C12_Witness ==
    /\ HasSent
    /\ sends[1].shortfail
    /\ sends[1].ok
    /\ sends[1].link = <<"orig", sends[1].titulo>>
    /\ pc = "post_wait"

\* C13: exit status: 0 when run() ended on a signal, non-zero when it ended
\* because the session retries were exhausted.
C13_ExitStatus ==
    exit_code # NotExited =>
        IF consec_fails >= MAX_RETRIES THEN exit_code # 0 ELSE exit_code = 0

\* C14: source failures are absorbed: while get_cupons gathers, the list
\* holds exactly the items of the searches that succeeded (nothing when all
\* failed), a failed search never aborts the cycle, and the batch handed to
\* the filter is a reordering of that list.
C14_SourceFailuresAbsorbed ==
    /\ [](pc = "cycle" =>
            /\ all_coupons = ok_items
            /\ (failed = 1..NumSites => all_coupons = <<>>))
    /\ [][(pc = "cycle" /\ failed' # failed /\ failed \subseteq failed') =>
             pc' = "cycle" /\ ~cycle_failed' /\ site' = site + 1]_vars
    /\ [][(pc = "cycle" /\ pc' = "publish") =>
             /\ Len(cupons') = Len(ok_items)
             /\ \A t \in Titles : Count(cupons', t) = Count(ok_items, t)]_vars

\* C14 witness: all sites were queried, some failed, some delivered.
C14_Witness ==
    /\ pc = "cycle"
    /\ site > NumSites
    /\ failed # {}
    /\ failed # 1..NumSites
    /\ all_coupons # <<>>

\* C15: availability: a cycle whose batch is not empty always has a
\* candidate to select and makes a send for a candidate of the batch,
\* whatever posted_coupons held.
C15_Availability ==
    /\ pc = "publish" => cupons # <<>> /\ new_coupons # <<>>
    /\ (cupons # <<>> /\ pc \notin {"cycle", "publish"}) =>
          Len(sends) = 1 /\ sends[1].titulo \in Range(cupons)

\* C15 witness: every title was already posted and the cycle still sent one.
C15_Witness ==
    /\ start_posted = Titles
    /\ cupons # <<>>
    /\ HasSent
    /\ sends[1].titulo \in start_posted
    /\ pc = "post_wait"

\* C16: reset only when exhausted: a cycle loses titles of posted_coupons only
\* when its batch is non-empty and all of its titles were posted; an empty
\* batch sends nothing and leaves posted_coupons as it was; a batch with an
\* unposted title removes nothing.
C16_ResetOnlyWhenExhausted ==
    /\ ~(start_posted \subseteq posted_coupons) =>
          cupons # <<>> /\ Range(cupons) \subseteq start_posted
    /\ cupons = <<>> => sends = <<>> /\ posted_coupons = start_posted
    /\ (cupons # <<>> /\ ~(Range(cupons) \subseteq start_posted)) =>
          start_posted \subseteq posted_coupons

\* C16 witness: a cycle with an empty batch ended and the history it started
\* with is intact.
C16_Witness ==
    /\ pc = "post_wait"
    /\ sleep_left = POST_INTERVAL
    /\ cupons = <<>>
    /\ sends = <<>>
    /\ start_posted # {}
    /\ posted_coupons = start_posted

\* C17: scheduler pacing: each iteration of the cycle loop calls post_cupons
\* once; a cycle always ends in a sleep, POST_INTERVAL when it returned and
\* RECONNECT_DELAY when it raised; the sleep is left only when all of it has
\* passed; a cycle starts only from the loop test.
C17_SchedulerPacing ==
    /\ [][(pc = "inner" /\ pc' # "inner" /\ should_restart) => pc' = "cycle"]_vars
    /\ [][(pc' = "cycle" /\ pc # "cycle") => pc = "inner"]_vars
    /\ [][(pc' = "inner" /\ pc # "inner") => pc \in {"init", "post_wait"}]_vars
    /\ [][(pc \in {"cycle", "publish"} /\ pc' \notin {"cycle", "publish"}) =>
             \/ /\ pc' = "post_wait"
                /\ ~cycle_failed'
                /\ sleep_left' = POST_INTERVAL
                /\ slept' = 0
             \/ /\ pc' = "cycle_wait"
                /\ cycle_failed'
                /\ sleep_left' = RECONNECT_DELAY
                /\ slept' = 0]_vars
    /\ [][(pc = "post_wait" /\ pc' # "post_wait") =>
             slept = POST_INTERVAL /\ sleep_left = 0 /\ pc' = "inner"]_vars
    /\ [][(pc = "cycle_wait" /\ pc' # "cycle_wait") =>
             slept = RECONNECT_DELAY /\ sleep_left = 0]_vars

\* C17 witness: a cycle that returned has been followed by the whole
\* POST_INTERVAL and the loop is about to go on.
C17_Witness ==
    /\ pc = "post_wait"
    /\ should_restart
    /\ ~cycle_failed
    /\ sleep_left = 0
    /\ slept = POST_INTERVAL

\* C18: a title is recorded only on a successful send: after a send that
\* returned, posted_coupons is the history plus that title; after a send that
\* raised, it is the history without it; and a title enters posted_coupons
\* only in the step of a send that returned, for that candidate.
C18_RecordedOnlyOnSuccess ==
    /\ [](HasSent =>
            IF sends[1].ok
            THEN posted_coupons = Prior \cup {sends[1].titulo}
            ELSE posted_coupons = Prior /\ sends[1].titulo \notin posted_coupons)
    /\ [][\A t \in posted_coupons' \ posted_coupons :
             /\ pc = "publish"
             /\ sends'[1].ok
             /\ sends'[1].titulo = t]_vars

\* C18 witness: the send raised and the candidate is still out of a
\* non-empty history.
C18_Witness ==
    /\ pc = "post_wait"
    /\ HasSent
    /\ ~sends[1].ok
    /\ start_posted # {}
    /\ sends[1].titulo \in Range(cupons)
    /\ sends[1].titulo \notin posted_coupons

\* C19: artifact freshness: a photo is sent only when cupom.png was written
\* in this cycle for this candidate.
C19_ArtifactFresh ==
    (HasSent /\ sends[1].photo) =>
        sends[1].fresh /\ sends[1].img = sends[1].titulo

====
